---- MODULE Spec2Model ----
(***************************************************************************)
(* Model of streamlit_app.py: a Streamlit script that the framework runs   *)
(* top to bottom on every interaction ("cycle").  One cycle is             *)
(*   connect -> fetch -> clean -> filters -> slider -> render -> charts.   *)
(* State that survives a cycle: the st.cache_resource entry holding the    *)
(* Snowflake connection, and the session's widget values.                  *)
(***************************************************************************)
EXTENDS Integers, Sequences, FiniteSets, TLC

VARIABLES
    table,            \* rows of POI_ADDRESS_US in the database (query order)
    cache,            \* st.cache_resource entry of get_connection: "none", or the handle's state "open"/"closed"
    widgets,          \* session widget state: value last held by each sidebar widget
    prev,             \* category/state/city used by the last cycle that ran the filters
    pc,               \* position of the script in the current cycle
    failure,          \* which step of this cycle raised: "none", "connect", "query"
    out,              \* elements rendered on the page in this cycle, in order
    df,               \* the DataFrame df
    filtered_df,      \* the DataFrame filtered_df
    category_options, \* line 43
    state_options,    \* line 51
    city_options,     \* line 56
    category,         \* line 48
    state,            \* line 52
    city,             \* line 57
    slider_args,      \* min_value/max_value/value passed to st.sidebar.slider, line 61
    row_count,        \* line 61
    table_view,       \* rows handed to st.dataframe, line 93
    category_counts,  \* line 105
    state_counts      \* line 116

vars == <<table, cache, widgets, prev, pc, failure, out, df, filtered_df,
          category_options, state_options, city_options, category, state, city,
          slider_args, row_count, table_view, category_counts, state_counts>>

cycleVars == <<df, filtered_df, category_options, state_options, city_options,
               category, state, city, slider_args, row_count, table_view,
               category_counts, state_counts>>

\* Longest table the model fetches.
MaxRows == 3

(***************************************************************************)
(* Values                                                                  *)
(***************************************************************************)

\* SQL NULL / None / NaN in a text column.
NULL == "<NULL>"

\* The "All" sentinel of lines 51-58.
All == "All"

\* Python's ordering of the labels used here (code-point lexicographic).
Rank ==
    [l \in {"A", "All", "Austin", "B", "CA", "Dallas", "LA", "TX"} |->
        CASE l = "A"      -> 1
          [] l = "All"    -> 2
          [] l = "Austin" -> 3
          [] l = "B"      -> 4
          [] l = "CA"     -> 5
          [] l = "Dallas" -> 6
          [] l = "LA"     -> 7
          [] l = "TX"     -> 8]

\* A LATITUDE/LONGITUDE cell <<kind, number, characters>>: a float, a text, SQL NULL,
\* or (after coercion) NaN.
Float(n) == <<"float", n, <<>>>>
Text(s)  == <<"text", 0, s>>
Null     == <<"null", 0, <<>>>>
NaN      == <<"nan", 0, <<>>>>

Digits == {"0", "1", "2", "3", "4", "5", "6", "7", "8", "9"}

DigitVal ==
    [c \in Digits |->
        CASE c = "0" -> 0 [] c = "1" -> 1 [] c = "2" -> 2 [] c = "3" -> 3
          [] c = "4" -> 4 [] c = "5" -> 5 [] c = "6" -> 6 [] c = "7" -> 7
          [] c = "8" -> 8 [] c = "9" -> 9]

\* One row of the result set.  STATE_ is the column STATE (a reserved word here).
Row(name, cat, st, ci, lat, lon) ==
    [POI_NAME |-> name, CATEGORY_MAIN |-> cat, STATE_ |-> st, CITY |-> ci,
     LATITUDE |-> lat, LONGITUDE |-> lon]

\* The rows a table is built from.
Rows ==
    { Row("P1", "A",  "TX", "Austin", Float(1),      Text(<<"1", "2">>)),
      Row("P2", "A",  "TX", "Dallas", Float(2),      Float(2)),
      Row("P3", "B",  "CA", "LA",     Float(3),      Float(3)),
      Row("P4", "A",  "CA", NULL,     Text(<<"4">>), Float(4)),
      Row("P5", NULL, "TX", "Austin", Float(5),      Float(5)),
      Row("P6", "B",  NULL, "Dallas", Float(6),      Float(6)),
      Row("P7", "B",  "TX", "LA",     Text(<<"x">>), Float(7)),
      Row("P8", "A",  "CA", "LA",     Float(8),      Null) }

RECURSIVE SeqsUpTo(_, _)
SeqsUpTo(S, n) ==
    IF n = 0 THEN {<<>>}
    ELSE LET shorter == SeqsUpTo(S, n - 1)
         IN shorter \cup {Append(s, x) : s \in {t \in shorter : Len(t) = n - 1}, x \in S}

Tables == SeqsUpTo(Rows, MaxRows)

Range(s) == {s[i] : i \in 1..Len(s)}

Min(a, b) == IF a <= b THEN a ELSE b

(***************************************************************************)
(* pandas                                                                  *)
(***************************************************************************)

RECURSIVE ParseDigits(_)
ParseDigits(s) ==
    IF s = <<>> THEN 0
    ELSE 10 * ParseDigits(SubSeq(s, 1, Len(s) - 1)) + DigitVal[s[Len(s)]]

\* pd.to_numeric(cell, errors="coerce") on the cells modelled here: a float stays,
\* a text of decimal digits is parsed, anything else becomes NaN.
to_numeric(v) ==
    CASE v[1] = "float" -> v
      [] v[1] = "text"  -> IF v[3] # <<>> /\ \A i \in 1..Len(v[3]) : v[3][i] \in Digits
                           THEN Float(ParseDigits(v[3]))
                           ELSE NaN
      [] OTHER          -> NaN

\* pd.read_sql: the rows in query order under a RangeIndex 0..n-1 (field idx).
read_sql(t) ==
    [i \in 1..Len(t) |->
        [idx |-> i - 1, POI_NAME |-> t[i].POI_NAME, CATEGORY_MAIN |-> t[i].CATEGORY_MAIN,
         STATE_ |-> t[i].STATE_, CITY |-> t[i].CITY,
         LATITUDE |-> t[i].LATITUDE, LONGITUDE |-> t[i].LONGITUDE]]

\* Lines 37-38: both columns coerced.
Coerce(d) ==
    [i \in 1..Len(d) |->
        [d[i] EXCEPT !.LATITUDE = to_numeric(@), !.LONGITUDE = to_numeric(@)]]

\* dropna with the LONGITUDE column left out of subset.
KeepRowLatitudeOnly(r) == r.LATITUDE # NaN

KeepRow(r) == r.LATITUDE # NaN /\ r.LONGITUDE # NaN

\* Line 39: df.dropna(subset=["LATITUDE", "LONGITUDE"]).
dropna(d) == SelectSeq(d, KeepRow)

\* Lines 37-39.
Sanitize(d) == dropna(Coerce(d))

\* series.dropna().unique(), as a set.
UniqueNonNull(d, col) == {d[i][col] : i \in 1..Len(d)} \ {NULL}

\* sorted(labels)
RECURSIVE sorted(_)
sorted(S) ==
    IF S = {} THEN <<>>
    ELSE LET m == CHOOSE x \in S : \A y \in S : Rank[x] <= Rank[y]
         IN <<m>> \o sorted(S \ {m})

\* d[d[col] == v]
WhereEq(d, col, v) ==
    LET Match(r) == r[col] = v /\ r[col] # NULL
    IN SelectSeq(d, Match)

\* d.head(n)
head(d, n) == SubSeq(d, 1, Min(n, Len(d)))

EmptyCounts == [l \in {} |-> 0]

\* value_counts(dropna=False): missing values counted under their own label.
RECURSIVE value_counts_keep_missing(_, _)
value_counts_keep_missing(d, col) ==
    IF d = <<>> THEN [l \in {} |-> 0]
    ELSE LET rest == value_counts_keep_missing(SubSeq(d, 1, Len(d) - 1), col)
             v    == d[Len(d)][col]
         IN IF v \in DOMAIN rest THEN [rest EXCEPT ![v] = @ + 1]
            ELSE rest @@ (v :> 1)

\* series.value_counts(): label -> occurrences, NaN/None not counted.
RECURSIVE value_counts(_, _)
value_counts(d, col) ==
    IF d = <<>> THEN EmptyCounts
    ELSE LET rest == value_counts(SubSeq(d, 1, Len(d) - 1), col)
             v    == d[Len(d)][col]
         IN IF v = NULL THEN rest
            ELSE IF v \in DOMAIN rest THEN [rest EXCEPT ![v] = @ + 1]
            ELSE rest @@ (v :> 1)

(***************************************************************************)
(* Streamlit widgets                                                       *)
(***************************************************************************)

\* No value held for a widget.
NoWidget == [opts |-> <<>>, val |-> NULL]
NoSlider == [max |-> 0, val |-> 0]

\* A select box that keeps the held value whatever the options have become.
selectbox_sticky(held, options) ==
    IF held.val # NULL THEN held.val ELSE options[1]

\* st.selectbox(label, options): the widget keeps the value the session holds for it
\* while its option list is unchanged, and otherwise starts at options[0].
selectbox(held, options) ==
    IF held.opts = options /\ held.val \in Range(options) THEN held.val ELSE options[1]

\* st.slider(min_value=1, max_value=n, value=default): the held value while the
\* bounds are unchanged, and otherwise the default.
slider(held, n, default) ==
    IF held.max = n /\ held.val \in 1..n THEN held.val ELSE default

(***************************************************************************)
(* The script                                                              *)
(***************************************************************************)

\* value=min(10, len(filtered_df)), line 61.
DefaultRows == 10

NoSelection == [category |-> NULL, state |-> NULL, city |-> NULL]

\* The script's variables before any statement of a cycle has run.
FreshCycle ==
    /\ df = <<>>
    /\ filtered_df = <<>>
    /\ category_options = <<>>
    /\ state_options = <<>>
    /\ city_options = <<>>
    /\ category = NULL
    /\ state = NULL
    /\ city = NULL
    /\ slider_args = [min_value |-> 0, max_value |-> 0, value |-> 0]
    /\ row_count = 0
    /\ table_view = <<>>
    /\ category_counts = EmptyCounts
    /\ state_counts = EmptyCounts

\* Lines 8-10, which every cycle renders first.
PageTop == <<"title", "markdown">>

Init ==
    /\ table \in Tables
    /\ cache = "none"
    /\ widgets = [category |-> NoWidget, state |-> NoWidget, city |-> NoWidget,
                  rows |-> NoSlider]
    /\ prev = NoSelection
    /\ pc = "connect"
    /\ failure = "none"
    /\ out = PageTop
    /\ FreshCycle

\* Lines 25-26 with a cached handle: st.cache_resource returns it as it is.
ConnectCached ==
    /\ pc = "connect"
    /\ cache # "none"
    /\ pc' = "fetch"
    /\ UNCHANGED <<table, cache, widgets, prev, failure, out, cycleVars>>

\* Lines 14-26: nothing cached, connect succeeds and the handle is cached.
ConnectOk ==
    /\ pc = "connect"
    /\ cache = "none"
    /\ cache' = "open"
    /\ pc' = "fetch"
    /\ UNCHANGED <<table, widgets, prev, failure, out, cycleVars>>

\* Lines 14-29: st.secrets[...] raises KeyError or connect() raises; the except
\* clause shows the error and stops the script.  Nothing is cached.
ConnectFail ==
    /\ pc = "connect"
    /\ cache = "none"
    /\ \E e \in {"secrets", "connect"} : failure' = e
    /\ out' = Append(out, "error")
    /\ pc' = "stopped"
    /\ UNCHANGED <<table, cache, widgets, prev, cycleVars>>

\* Lines 32-34: the query runs on an open handle, then conn.close() closes the
\* handle, which stays in the cache.
FetchOk ==
    /\ pc = "fetch"
    /\ cache = "open"
    /\ df' = read_sql(table)
    /\ cache' = "closed"
    /\ pc' = "clean"
    /\ UNCHANGED <<table, widgets, prev, failure, out, filtered_df, category_options,
                   state_options, city_options, category, state, city, slider_args,
                   row_count, table_view, category_counts, state_counts>>

\* Line 33 raises: always on a closed handle, possibly on an open one.  No except
\* clause covers it, so the exception ends the script; line 34 is not reached.
FetchFail ==
    /\ pc = "fetch"
    /\ cache \in {"open", "closed"}
    /\ failure' = "query"
    /\ pc' = "crashed"
    /\ UNCHANGED <<table, cache, widgets, prev, out, cycleVars>>

\* Lines 37-39.
Clean ==
    /\ pc = "clean"
    /\ df' = Sanitize(df)
    /\ pc' = "category_options"
    /\ UNCHANGED <<table, cache, widgets, prev, failure, out, filtered_df,
                   category_options, state_options, city_options, category, state, city,
                   slider_args, row_count, table_view, category_counts, state_counts>>

\* Line 43 without .dropna(): a missing category becomes an option.
CategoryOptionsKeepMissing ==
    LET S == {df[i].CATEGORY_MAIN : i \in 1..Len(df)}
    IN sorted(S \ {NULL}) \o (IF NULL \in S THEN <<NULL>> ELSE <<>>)

\* Line 43.
CategoryOptions == sorted(UniqueNonNull(df, "CATEGORY_MAIN"))

\* Lines 42-46.
CategoryCheck ==
    /\ pc = "category_options"
    /\ category_options' = CategoryOptions
    /\ IF category_options' = <<>>
       THEN /\ out' = out \o <<"sidebar_header", "warning">>
            /\ pc' = "stopped"
       ELSE /\ out' = Append(out, "sidebar_header")
            /\ pc' = "select_category"
    /\ UNCHANGED <<table, cache, widgets, prev, failure, df, filtered_df,
                   state_options, city_options, category, state, city, slider_args,
                   row_count, table_view, category_counts, state_counts>>

\* Lines 48-49.
SelectCategory ==
    /\ pc = "select_category"
    /\ category' = selectbox(widgets.category, category_options)
    /\ widgets' = [widgets EXCEPT !.category = [opts |-> category_options, val |-> category']]
    /\ filtered_df' = WhereEq(df, "CATEGORY_MAIN", category')
    /\ out' = Append(out, "select_category")
    /\ pc' = "select_state"
    /\ UNCHANGED <<table, cache, prev, failure, df, category_options, state_options,
                   city_options, state, city, slider_args, row_count, table_view,
                   category_counts, state_counts>>

\* Line 51 reading df instead of filtered_df.
StateOptionsUnfiltered == <<All>> \o sorted(UniqueNonNull(df, "STATE_"))

\* Line 51.
StateOptions == <<All>> \o sorted(UniqueNonNull(filtered_df, "STATE_"))

\* Lines 51-54.
SelectState ==
    /\ pc = "select_state"
    /\ state_options' = StateOptions
    /\ state' = selectbox(widgets.state, state_options')
    /\ widgets' = [widgets EXCEPT !.state = [opts |-> state_options', val |-> state']]
    /\ filtered_df' = IF state' # All THEN WhereEq(filtered_df, "STATE_", state')
                      ELSE filtered_df
    /\ out' = Append(out, "select_state")
    /\ pc' = "select_city"
    /\ UNCHANGED <<table, cache, prev, failure, df, category_options, city_options,
                   category, city, slider_args, row_count, table_view,
                   category_counts, state_counts>>

\* Line 56 reading df instead of filtered_df.
CityOptionsUnfiltered == <<All>> \o sorted(UniqueNonNull(df, "CITY"))

\* Line 56.
CityOptions == <<All>> \o sorted(UniqueNonNull(filtered_df, "CITY"))

\* Lines 56-59.
SelectCity ==
    /\ pc = "select_city"
    /\ city_options' = CityOptions
    /\ city' = selectbox(widgets.city, city_options')
    /\ widgets' = [widgets EXCEPT !.city = [opts |-> city_options', val |-> city']]
    /\ filtered_df' = IF city' # All THEN WhereEq(filtered_df, "CITY", city')
                      ELSE filtered_df
    /\ out' = Append(out, "select_city")
    /\ pc' = "row_count"
    /\ UNCHANGED <<table, cache, prev, failure, df, category_options, state_options,
                   category, state, slider_args, row_count, table_view,
                   category_counts, state_counts>>

\* Line 61.
RowCount ==
    /\ pc = "row_count"
    /\ slider_args' = [min_value |-> 1, max_value |-> Len(filtered_df),
                       value |-> Min(DefaultRows, Len(filtered_df))]
    /\ row_count' = slider(widgets.rows, slider_args'.max_value, slider_args'.value)
    /\ widgets' = [widgets EXCEPT !.rows = [max |-> slider_args'.max_value, val |-> row_count']]
    /\ out' = Append(out, "slider")
    /\ pc' = "render"
    /\ UNCHANGED <<table, cache, prev, failure, df, filtered_df, category_options,
                   state_options, city_options, category, state, city, table_view,
                   category_counts, state_counts>>

\* Lines 64-101: summary, map or "no data" warning, table, CSV download.
RenderSelection ==
    /\ pc = "render"
    /\ out' = out \o <<"success", "map_header",
                       IF filtered_df # <<>> THEN "map" ELSE "no_data",
                       "table_header", "table", "download">>
    /\ table_view' = head(filtered_df, row_count)
    /\ pc' = "aggregates"
    /\ UNCHANGED <<table, cache, widgets, prev, failure, df, filtered_df,
                   category_options, state_options, city_options, category, state, city,
                   slider_args, row_count, category_counts, state_counts>>

\* The charts computed from the filtered frame.
ChartSourceFiltered == filtered_df

\* The frame the three charts are computed from, lines 105 and 116.
ChartSource == df

\* Lines 103-118: category bar chart, category pie chart, state bar chart.
RenderAggregates ==
    /\ pc = "aggregates"
    /\ category_counts' = value_counts(ChartSource, "CATEGORY_MAIN")
    /\ state_counts' = value_counts(ChartSource, "STATE_")
    /\ out' = out \o <<"category_bar", "category_pie", "state_bar">>
    /\ pc' = "done"
    /\ UNCHANGED <<table, cache, widgets, prev, failure, df, filtered_df,
                   category_options, state_options, city_options, category, state, city,
                   slider_args, row_count, table_view>>

(***************************************************************************)
(* The session between cycles                                              *)
(***************************************************************************)

Ended == pc \in {"done", "stopped", "crashed"}

\* The framework re-runs the script from line 1 with fresh script variables.
StartCycle ==
    /\ pc' = "connect"
    /\ failure' = "none"
    /\ out' = PageTop
    /\ prev' = IF pc = "done"
               THEN [category |-> category, state |-> state, city |-> city]
               ELSE prev
    /\ df' = <<>>
    /\ filtered_df' = <<>>
    /\ category_options' = <<>>
    /\ state_options' = <<>>
    /\ city_options' = <<>>
    /\ category' = NULL
    /\ state' = NULL
    /\ city' = NULL
    /\ slider_args' = [min_value |-> 0, max_value |-> 0, value |-> 0]
    /\ row_count' = 0
    /\ table_view' = <<>>
    /\ category_counts' = EmptyCounts
    /\ state_counts' = EmptyCounts
    /\ UNCHANGED <<table, cache>>

\* The page is reloaded or re-run with the widgets as they are.
Rerun ==
    /\ Ended
    /\ StartCycle
    /\ UNCHANGED widgets

\* The user picks another category in the select box of line 48.
PickCategory ==
    /\ pc = "done"
    /\ \E v \in Range(category_options) \ {category} :
          widgets' = [widgets EXCEPT !.category.val = v]
    /\ StartCycle

\* The user picks another state in the select box of line 52.
PickState ==
    /\ pc = "done"
    /\ \E v \in Range(state_options) \ {state} :
          widgets' = [widgets EXCEPT !.state.val = v]
    /\ StartCycle

\* The user picks another city in the select box of line 57.
PickCity ==
    /\ pc = "done"
    /\ \E v \in Range(city_options) \ {city} :
          widgets' = [widgets EXCEPT !.city.val = v]
    /\ StartCycle

\* The user moves the slider of line 61.
MoveSlider ==
    /\ pc = "done"
    /\ \E n \in (slider_args.min_value..slider_args.max_value) \ {row_count} :
          widgets' = [widgets EXCEPT !.rows.val = n]
    /\ StartCycle

\* The st.cache_resource entry of line 13 is dropped by the app's "Clear cache"
\* command; the session keeps its widgets.
ClearCache ==
    /\ Ended
    /\ cache # "none"
    /\ cache' = "none"
    /\ UNCHANGED <<table, widgets, prev, pc, failure, out, cycleVars>>

Next ==
    \/ ConnectCached
    \/ ConnectOk
    \/ ConnectFail
    \/ FetchOk
    \/ FetchFail
    \/ Clean
    \/ CategoryCheck
    \/ SelectCategory
    \/ SelectState
    \/ SelectCity
    \/ RowCount
    \/ RenderSelection
    \/ RenderAggregates
    \/ Rerun
    \/ PickCategory
    \/ PickState
    \/ PickCity
    \/ MoveSlider
    \/ ClearCache

Spec == Init /\ [][Next]_vars

(***************************************************************************)
(* Properties                                                              *)
(***************************************************************************)

Rendered == Range(out)

\* The script is past lines 37-39 of this cycle.
Cleaned ==
    \/ pc \in {"category_options", "select_category", "select_state", "select_city",
               "row_count", "render", "aggregates", "done"}
    \/ pc = "stopped" /\ failure = "none"

\* The script is past the check of lines 44-46.
PastCategoryCheck == Cleaned /\ pc # "category_options"

AfterState == {"select_city", "row_count", "render", "aggregates", "done"}
AfterCity  == {"row_count", "render", "aggregates", "done"}
AfterSlider == {"render", "aggregates", "done"}

FilterElements ==
    {"sidebar_header", "select_category", "select_state", "select_city", "slider"}
ResultElements ==
    {"success", "map_header", "map", "no_data", "table_header", "table", "download",
     "category_bar", "category_pie", "state_bar"}

\* C1: a cycle in which connecting (a missing configuration value included) or the
\* query failed has shown exactly one error, has been stopped by the script, and
\* has rendered no filter widget, map, table, CSV export or chart.
C1_FailureCaughtAndHalts ==
    failure # "none" =>
        /\ pc = "stopped"
        /\ Cardinality({i \in 1..Len(out) : out[i] = "error"}) = 1
        /\ Rendered \cap (FilterElements \cup ResultElements) = {}

\* C2: whenever a cycle is about to run its query, the handle it got from
\* get_connection is usable (open): a closed one has been re-acquired.
C2_QueryOnUsableHandle == pc = "fetch" => cache = "open"

\* C3: the state options are "All" plus labels of records of the selected category
\* only, and the city options are "All" plus labels of records of the selected
\* category and, unless the state is "All", of the selected state only.
C3_OptionsFromUpstream ==
    /\ pc \in AfterState =>
          Range(state_options) \subseteq
              {All} \cup {df[i].STATE_ :
                            i \in {j \in 1..Len(df) : df[j].CATEGORY_MAIN = category}}
    /\ pc \in AfterCity =>
          Range(city_options) \subseteq
              {All} \cup {df[i].CITY :
                            i \in {j \in 1..Len(df) :
                                     /\ df[j].CATEGORY_MAIN = category
                                     /\ state # All => df[j].STATE_ = state}}

\* A state is selected, and both option lists leave out a label the data has
\* elsewhere.
C3_Witness ==
    /\ pc = "done"
    /\ state # All
    /\ \E i \in 1..Len(df) :
          df[i].STATE_ # NULL /\ df[i].STATE_ \notin Range(state_options)
    /\ \E i \in 1..Len(df) :
          /\ df[i].CATEGORY_MAIN = category
          /\ df[i].CITY # NULL
          /\ df[i].CITY \notin Range(city_options)

\* C4: in every cycle the state and the city the filter uses are members of that
\* cycle's own option lists ("All" included), and the filtered frame is df
\* filtered by exactly these values.
C4_SelectionWithinOptions ==
    /\ pc \in AfterState => state \in Range(state_options)
    /\ pc \in AfterCity =>
          /\ city \in Range(city_options)
          /\ filtered_df =
                SelectSeq(df, LAMBDA r :
                    /\ r.CATEGORY_MAIN = category
                    /\ state # All => r.STATE_ = state
                    /\ city # All => r.CITY = city)

\* The category was changed, and the state and city of the cycle before are no
\* longer offered: both fell back to "All".
C4_Witness ==
    /\ pc = "done"
    /\ prev.category \notin {NULL, category}
    /\ prev.state \notin Range(state_options) \cup {NULL}
    /\ prev.city \notin Range(city_options) \cup {NULL}
    /\ state = All
    /\ city = All

\* A raw cell that parses as a number.
IsNumberCell(v) ==
    \/ v[1] = "float"
    \/ v[1] = "text" /\ Len(v[3]) > 0 /\ Range(v[3]) \subseteq Digits

\* C6: the sanitized frame has no missing latitude or longitude, holds exactly the
\* fetched rows whose latitude and longitude both parse as numbers, each once and
\* otherwise unchanged, in the order of the fetched table.
C6_SanitizeKeepsParsableInOrder ==
    Cleaned =>
        LET kept == {i \in 1..Len(table) :
                        IsNumberCell(table[i].LATITUDE) /\ IsNumberCell(table[i].LONGITUDE)}
        IN /\ \A k \in 1..Len(df) :
                 /\ df[k].LATITUDE[1] = "float"
                 /\ df[k].LONGITUDE[1] = "float"
                 /\ df[k].idx + 1 \in 1..Len(table)
                 /\ df[k].POI_NAME = table[df[k].idx + 1].POI_NAME
                 /\ df[k].CATEGORY_MAIN = table[df[k].idx + 1].CATEGORY_MAIN
                 /\ df[k].STATE_ = table[df[k].idx + 1].STATE_
                 /\ df[k].CITY = table[df[k].idx + 1].CITY
           /\ {df[k].idx + 1 : k \in 1..Len(df)} = kept
           /\ \A k, l \in 1..Len(df) : k < l => df[k].idx < df[l].idx

\* A row between two surviving rows was dropped, and a text latitude survived.
C6_Witness ==
    /\ Cleaned
    /\ Len(table) = 3
    /\ Len(df) = 2
    /\ df[1].idx = 0
    /\ df[2].idx = 2
    /\ \E i \in {1, 3} : table[i].LATITUDE[1] = "text"

\* C7: once past the category check, a sanitized frame without any non-missing
\* category means the cycle was stopped with the warning, before any selection and
\* with no map, table, CSV export or chart.
C7_NoCategoryHalts ==
    (PastCategoryCheck /\ \A i \in 1..Len(df) : df[i].CATEGORY_MAIN = NULL) =>
        /\ pc = "stopped"
        /\ out = PageTop \o <<"sidebar_header", "warning">>
        /\ category = NULL /\ state = NULL /\ city = NULL
        /\ Rendered \cap ResultElements = {}

\* Rows were fetched and survive sanitizing, but none has a category.
C7_Witness ==
    /\ pc = "stopped"
    /\ failure = "none"
    /\ Len(df) > 0
    /\ "warning" \in Rendered

\* Occurrences of each non-missing label of a column, counted directly.
CountOver(d, col) ==
    [l \in {d[i][col] : i \in 1..Len(d)} \ {NULL} |->
        Cardinality({i \in 1..Len(d) : d[i][col] = l})]

\* C8: the category and state counts a cycle renders are those of the whole
\* sanitized table: a function of the fetched table alone, whatever category,
\* state, city and row count are selected.
C8_AggregatesIgnoreFilters ==
    pc = "done" =>
        /\ category_counts = CountOver(Sanitize(read_sql(table)), "CATEGORY_MAIN")
        /\ state_counts = CountOver(Sanitize(read_sql(table)), "STATE_")

\* Category, state, city and row count all narrow what the table shows.
C8_Witness ==
    /\ pc = "done"
    /\ state # All
    /\ city # All
    /\ Len(filtered_df) < Len(df)
    /\ row_count < Len(filtered_df)

RECURSIVE SumCounts(_)
SumCounts(f) ==
    IF DOMAIN f = {} THEN 0
    ELSE LET l == CHOOSE x \in DOMAIN f : TRUE
         IN f[l] + SumCounts([x \in DOMAIN f \ {l} |-> f[x]])

\* C9: the category counts add up to the number of records with a category, no
\* count belongs to a missing value, and each label's count is the number of
\* records carrying it; the same for the state counts.
C9_CountsSumToNonMissing ==
    pc = "done" =>
        \A c \in {<<"CATEGORY_MAIN", category_counts>>, <<"STATE_", state_counts>>} :
            /\ SumCounts(c[2]) = Cardinality({i \in 1..Len(df) : df[i][c[1]] # NULL})
            /\ NULL \notin DOMAIN c[2]
            /\ \A l \in DOMAIN c[2] :
                  c[2][l] = Cardinality({i \in 1..Len(df) : df[i][c[1]] = l})

\* Some record has a state but no category, some a category but no state, and
\* both totals fall short of the size of the frame.
C9_Witness ==
    /\ pc = "done"
    /\ \E i \in 1..Len(df) : df[i].CATEGORY_MAIN = NULL /\ df[i].STATE_ # NULL
    /\ \E i \in 1..Len(df) : df[i].STATE_ = NULL /\ df[i].CATEGORY_MAIN # NULL
    /\ SumCounts(category_counts) < Len(df)
    /\ SumCounts(state_counts) < Len(df)

\* C10: when the slider is built the filtered frame is not empty, so the slider
\* gets 1 <= max_value = len(filtered_df) and a default min(10, len) within
\* [1, len], and the "no data" branch of the map is not taken.
C10_SliderOverNonEmpty ==
    /\ pc \in AfterCity => Len(filtered_df) >= 1
    /\ pc \in AfterSlider =>
          /\ slider_args.min_value = 1
          /\ slider_args.max_value = Len(filtered_df)
          /\ slider_args.min_value <= slider_args.max_value
          /\ slider_args.value = Min(DefaultRows, Len(filtered_df))
          /\ slider_args.value \in slider_args.min_value..slider_args.max_value
          /\ row_count \in slider_args.min_value..slider_args.max_value
    /\ "no_data" \notin Rendered

\* State and city are both selected and leave a single record of several.
C10_Witness ==
    /\ pc = "done"
    /\ state # All
    /\ city # All
    /\ Len(filtered_df) = 1
    /\ Len(df) > 1
    /\ "map" \in Rendered

====
